---- MODULE Spec2Model ----
(***************************************************************************)
(* Model of dataset_mapping.py: the largest-remainder apportionment        *)
(* allocate_hospitals_proportional, the seeded assignment                  *)
(* assign_hospitals_to_regions, and the process-wide generator of the      *)
(* `random` module that both functions seed and that the shuffle consumes. *)
(*                                                                         *)
(* A dict is modelled by its insertion order: `regions` and `allocation`   *)
(* are sequences, and the region label is the position in the sequence.    *)
(* `mapping` is a function on Identifiers, NoRegion marking an absent key. *)
(***************************************************************************)
EXTENDS Integers, Sequences, FiniteSets, TLC

(* ------------------------------ bounds --------------------------------- *)
MaxRegions == 3
MaxWeight == 4
MaxTotal == 5
MaxHospitals == 3
MaxAllocRegions == 2
MaxCount == 2
MaxSeed == 1
RngMod == 8
\* Width of the significand of the modelled binary floating point.  Python's
\* float has 53 bits; with 17 bits allocate_hospitals_proportional returns
\* what it returns in binary64 on every input within the bounds above.
MantissaBits == 17

NoSeed == -1
NoRegion == 0

Identifiers == {"h1", "h2", "h3"}
Threads == {1, 2}
MainThread == {1}

Abs(x) == IF x < 0 THEN -x ELSE x
Min(a, b) == IF a < b THEN a ELSE b
Max(a, b) == IF a > b THEN a ELSE b

RECURSIVE SumSeq(_)
SumSeq(s) == IF s = <<>> THEN 0 ELSE Head(s) + SumSeq(Tail(s))

SeqsUpTo(S, n) == UNION {[1..k -> S] : k \in 0..n}

(* ------------------------- floating point ------------------------------ *)
\* A float is m * 2^e with 2^(MantissaBits-1) <= |m| < 2^MantissaBits, or zero.
FloatZero == [m |-> 0, e |-> 0]

\* The float nearest to (a / d) * 2^e for a > 0, d > 0, ties to even.
RECURSIVE RoundPositive(_, _, _)
RoundPositive(a, d, e) ==
    IF a >= d * 2^MantissaBits THEN RoundPositive(a, 2 * d, e + 1)
    ELSE IF a < d * 2^(MantissaBits - 1) THEN RoundPositive(2 * a, d, e - 1)
    ELSE LET q == a \div d
             r == a % d
             m == IF 2 * r > d \/ (2 * r = d /\ q % 2 = 1) THEN q + 1 ELSE q
         IN  IF m = 2^MantissaBits
             THEN [m |-> 2^(MantissaBits - 1), e |-> e + 1]
             ELSE [m |-> m, e |-> e]

\* The float nearest to (num / den) * 2^e, den # 0.
RoundToFloat(num, den, e) ==
    IF num = 0 THEN FloatZero
    ELSE LET f == RoundPositive(Abs(num), Abs(den), e)
         IN  [m |-> IF (num < 0) # (den < 0) THEN -f.m ELSE f.m, e |-> f.e]

\* int / int (true division), b # 0
FloatDiv(a, b) == RoundToFloat(a, b, 0)

\* float * int
FloatMulInt(x, n) == RoundToFloat(x.m * n, 1, x.e)

\* math.ceil in the place of math.floor
ceil(x) == IF x.e >= 0 THEN x.m * 2^(x.e) ELSE -((-x.m) \div 2^(-x.e))

\* math.floor(float)
floor(x) == IF x.e >= 0 THEN x.m * 2^(x.e) ELSE x.m \div 2^(-x.e)

\* float - int
FloatSubInt(x, k) ==
    IF x.e >= 0 THEN RoundToFloat(x.m * 2^(x.e) - k, 1, 0)
    ELSE RoundToFloat(x.m - k * 2^(-x.e), 1, x.e)

\* x < y on floats
FloatLess(x, y) ==
    IF x.m = 0 THEN y.m > 0
    ELSE IF y.m = 0 THEN x.m < 0
    ELSE IF (x.m < 0) # (y.m < 0) THEN x.m < 0
    ELSE IF x.m > 0 THEN x.e < y.e \/ (x.e = y.e /\ x.m < y.m)
    ELSE x.e > y.e \/ (x.e = y.e /\ x.m < y.m)

(* ------------------- allocate_hospitals_proportional ------------------- *)
\* total_population = sum(regions.values())
total_population(regions) == SumSeq(regions)

\* proportion * total_hospitals for one region (lines 29-30)
exact_allocation(population, regions, total_hospitals) ==
    FloatMulInt(FloatDiv(population, total_population(regions)), total_hospitals)

\* The first loop (lines 28-33) after its first k iterations: the floor of
\* each exact allocation and what the floor left over.
RECURSIVE FirstLoop(_, _, _)
FirstLoop(regions, total_hospitals, k) ==
    IF k = 0 THEN [allocation |-> <<>>, fractional_allocation |-> <<>>]
    ELSE LET before == FirstLoop(regions, total_hospitals, k - 1)
             x == exact_allocation(regions[k], regions, total_hospitals)
             allocated == floor(x)
         IN  [allocation |-> Append(before.allocation, allocated),
              fractional_allocation |->
                  Append(before.fractional_allocation, FloatSubInt(x, allocated))]

\* sorted(..., key=frac, reverse=True): stable, so an item goes after every
\* item already placed whose key is not smaller.
RECURSIVE InsertDescending(_, _, _)
InsertDescending(sorted, i, frac) ==
    IF sorted = <<>> THEN <<i>>
    ELSE IF FloatLess(frac[Head(sorted)], frac[i])
         THEN <<i>> \o sorted
         ELSE <<Head(sorted)>> \o InsertDescending(Tail(sorted), i, frac)

RECURSIVE SortPrefix(_, _)
SortPrefix(k, frac) ==
    IF k = 0 THEN <<>> ELSE InsertDescending(SortPrefix(k - 1, frac), k, frac)

sorted_regions(frac) == SortPrefix(Len(frac), frac)

\* The second loop without its `if remaining == 0: break`
RECURSIVE TopUpNoBreak(_, _, _)
TopUpNoBreak(allocation, order, remaining) ==
    IF order = <<>> THEN allocation
    ELSE TopUpNoBreak([allocation EXCEPT ![Head(order)] = @ + 1], Tail(order), remaining - 1)

\* The second loop: one more unit per region of `order` until remaining == 0.
RECURSIVE TopUp(_, _, _)
TopUp(allocation, order, remaining) ==
    IF order = <<>> \/ remaining = 0 THEN allocation
    ELSE TopUp([allocation EXCEPT ![Head(order)] = @ + 1], Tail(order), remaining - 1)

\* Lines 23-48.  The division raises ZeroDivisionError in the first iteration
\* of the loop when the weights sum to zero; an empty dict never divides.
allocate_hospitals_proportional(regions, total_hospitals) ==
    IF Len(regions) > 0 /\ total_population(regions) = 0
    THEN [raised |-> "ZeroDivisionError", allocation |-> <<>>]
    ELSE LET first == FirstLoop(regions, total_hospitals, Len(regions))
             remaining == total_hospitals - SumSeq(first.allocation)
         IN  [raised |-> "none",
              allocation |->
                 IF remaining > 0
                 THEN TopUp(first.allocation,
                            sorted_regions(first.fractional_allocation),
                            remaining)
                 ELSE first.allocation]

(* ------------------------ the random module ---------------------------- *)
\* random.seed(seed): the generator state is a function of the seed alone.
SeedState(seed) == seed % RngMod

\* One step of the generator.
RandNext(g) == (5 * g + 3) % RngMod

\* random._randbelow(n): advances the generator, returns a value in 0..n-1.
randbelow(g, n) == [rng |-> RandNext(g), value |-> RandNext(g) % n]

\* `if seed:` in the place of `if seed is not None:`
SeedGeneratorIfTruthy(g, seed) == IF seed # NoSeed /\ seed # 0 THEN SeedState(seed) ELSE g

\* if seed is not None: random.seed(seed)   (lines 20-21 and 62-63)
SeedGenerator(g, seed) == IF seed # NoSeed THEN SeedState(seed) ELSE g

\* x[i] = x[j] alone: the element that was at i is lost
SwapOverwrite(x, i, j) == [x EXCEPT ![i] = x[j]]

\* x[i], x[j] = x[j], x[i]
Swap(x, i, j) == [x EXCEPT ![i] = x[j], ![j] = x[i]]

\* random.shuffle(x): for i from the last position down to the second,
\* j = randbelow(i + 1), swap x[i] and x[j]  (positions here are 1-based).
RECURSIVE ShuffleFrom(_, _, _)
ShuffleFrom(g, x, i) ==
    IF i < 2 THEN [rng |-> g, list |-> x]
    ELSE LET d == randbelow(g, i)
         IN  ShuffleFrom(d.rng, Swap(x, i, d.value + 1), i - 1)

shuffle(g, x) == ShuffleFrom(g, x, Len(x))

(* --------------------- assign_hospitals_to_regions --------------------- *)
EmptyMapping == [h \in Identifiers |-> NoRegion]

\* A slice bound of a list of length n: negative bounds count from the end,
\* and every bound is clamped into 0..n.
SliceIndex(k, n) == IF k < 0 THEN Max(k + n, 0) ELSE Min(k, n)

\* x[a:b + 1]
SliceInclusive(x, a, b) ==
    LET lo == SliceIndex(a, Len(x))
        hi == SliceIndex(b + 1, Len(x))
    IN  IF lo >= hi THEN <<>> ELSE SubSeq(x, lo + 1, hi)

\* x[a:b]
Slice(x, a, b) ==
    LET lo == SliceIndex(a, Len(x))
        hi == SliceIndex(b, Len(x))
    IN  IF lo >= hi THEN <<>> ELSE SubSeq(x, lo + 1, hi)

\* for hospital in assigned_hospitals: mapping[hospital] = region
RECURSIVE AssignBlock(_, _, _)
AssignBlock(mapping, assigned_hospitals, region) ==
    IF assigned_hospitals = <<>> THEN mapping
    ELSE AssignBlock([mapping EXCEPT ![Head(assigned_hospitals)] = region],
                     Tail(assigned_hospitals), region)

\* The loop of lines 68-72 without `current_index += count`
RECURSIVE MappingLoopNoAdvance(_, _, _, _, _)
MappingLoopNoAdvance(mapping, hospitals, allocation, region, current_index) ==
    IF region > Len(allocation) THEN mapping
    ELSE MappingLoopNoAdvance(
             AssignBlock(mapping,
                         Slice(hospitals, current_index, current_index + allocation[region]),
                         region),
             hospitals, allocation, region + 1, current_index)

\* The loop of lines 68-72, from region `region` on.
RECURSIVE MappingLoop(_, _, _, _, _)
MappingLoop(mapping, hospitals, allocation, region, current_index) ==
    IF region > Len(allocation) THEN mapping
    ELSE LET count == allocation[region]
             assigned_hospitals == Slice(hospitals, current_index, current_index + count)
         IN  MappingLoop(AssignBlock(mapping, assigned_hospitals, region),
                         hospitals, allocation, region + 1, current_index + count)

\* Lines 65-73 on generator state g: the list after the in-place shuffle,
\* the generator after it, and the returned mapping.
assign_hospitals_to_regions(g, hospitals, allocation) ==
    LET s == shuffle(g, hospitals)
    IN  [rng |-> s.rng,
         hospitals |-> s.list,
         mapping |-> MappingLoop(EmptyMapping, s.list, allocation, 1, 0)]

(* ---------------------------- input sets ------------------------------- *)
Weights == 0..MaxWeight
RegionInputs == SeqsUpTo(Weights, MaxRegions)
TotalInputs == {-1} \cup (0..MaxTotal)
Seeds == {NoSeed} \cup (0..MaxSeed)
HospitalInputs == SeqsUpTo(Identifiers, MaxHospitals)
AllocationInputs == SeqsUpTo({-1} \cup (0..MaxCount), MaxAllocRegions)

\* The calls two threads make at the same time.
ConcRegionInputs == {<<1, 1, 1>>, <<4, 1, 1>>}
ConcTotalInputs == {2}
ConcHospitalInputs == {<<"h1", "h2", "h3">>}
ConcAllocationInputs == {<<2, 1>>}

(* ------------------------------- state --------------------------------- *)
VARIABLES
    rng,         \* the state of the generator of the random module
    pc,          \* pc[t]: where thread t is in its call
    args,        \* args[t]: the arguments as they were when t made its call
    hospitals,   \* hospitals[t]: the caller's list object passed to assign
    allocation,  \* allocation[t]: the dict returned by allocate or passed to assign
    mapping,     \* mapping[t]: the dict returned by assign
    raised       \* raised[t]: the exception the call ended with

vars == <<rng, pc, args, hospitals, allocation, mapping, raised>>

NoArgs ==
    [regions |-> <<>>, total_hospitals |-> 0, hospitals |-> <<>>,
     allocation |-> <<>>, seed |-> NoSeed]

Init ==
    /\ rng \in 0..(RngMod - 1)
    /\ pc = [t \in Threads |-> "idle"]
    /\ args = [t \in Threads |-> NoArgs]
    /\ hospitals = [t \in Threads |-> <<>>]
    /\ allocation = [t \in Threads |-> <<>>]
    /\ mapping = [t \in Threads |-> EmptyMapping]
    /\ raised = [t \in Threads |-> "none"]

\* allocate_hospitals_proportional is entered and seeds the generator.
CallAllocate(t, RS, TS) ==
    /\ pc[t] = "idle"
    /\ \E regions \in RS, total_hospitals \in TS, seed \in Seeds :
          /\ args' = [args EXCEPT ![t] =
                        [NoArgs EXCEPT !.regions = regions,
                                       !.total_hospitals = total_hospitals,
                                       !.seed = seed]]
          /\ rng' = SeedGenerator(rng, seed)
    /\ pc' = [pc EXCEPT ![t] = "allocate_body"]
    /\ UNCHANGED <<hospitals, allocation, mapping, raised>>

\* The rest of allocate_hospitals_proportional, to its return or exception.
AllocateBody(t) ==
    /\ pc[t] = "allocate_body"
    /\ \E r \in {allocate_hospitals_proportional(args[t].regions, args[t].total_hospitals)} :
           /\ allocation' = [allocation EXCEPT ![t] = r.allocation]
           /\ raised' = [raised EXCEPT ![t] = r.raised]
           /\ pc' = [pc EXCEPT ![t] =
                       IF r.raised = "none" THEN "allocate_returned" ELSE "allocate_raised"]
    /\ UNCHANGED <<rng, args, hospitals, mapping>>

\* assign_hospitals_to_regions is entered and seeds the generator.
CallAssign(t, HS, AS) ==
    /\ pc[t] = "idle"
    /\ \E hs \in HS, al \in AS, seed \in Seeds :
          /\ args' = [args EXCEPT ![t] =
                        [NoArgs EXCEPT !.hospitals = hs, !.allocation = al, !.seed = seed]]
          /\ hospitals' = [hospitals EXCEPT ![t] = hs]
          /\ allocation' = [allocation EXCEPT ![t] = al]
          /\ rng' = SeedGenerator(rng, seed)
    /\ pc' = [pc EXCEPT ![t] = "assign_body"]
    /\ UNCHANGED <<mapping, raised>>

\* The rest of assign_hospitals_to_regions: shuffle in place, build, return.
AssignBody(t) ==
    /\ pc[t] = "assign_body"
    /\ \E r \in {assign_hospitals_to_regions(rng, hospitals[t], allocation[t])} :
           /\ rng' = r.rng
           /\ hospitals' = [hospitals EXCEPT ![t] = r.hospitals]
           /\ mapping' = [mapping EXCEPT ![t] = r.mapping]
    /\ pc' = [pc EXCEPT ![t] = "assign_returned"]
    /\ UNCHANGED <<args, allocation, raised>>

\* The caller drops the results of its call and is ready for the next one.
Discard(t) ==
    /\ pc[t] \in {"allocate_returned", "allocate_raised", "assign_returned"}
    /\ pc' = [pc EXCEPT ![t] = "idle"]
    /\ args' = [args EXCEPT ![t] = NoArgs]
    /\ hospitals' = [hospitals EXCEPT ![t] = <<>>]
    /\ allocation' = [allocation EXCEPT ![t] = <<>>]
    /\ mapping' = [mapping EXCEPT ![t] = EmptyMapping]
    /\ raised' = [raised EXCEPT ![t] = "none"]
    /\ UNCHANGED rng

\* One thread making one call after another.
Next ==
    \E t \in MainThread :
        \/ CallAllocate(t, RegionInputs, TotalInputs)
        \/ AllocateBody(t)
        \/ CallAssign(t, HospitalInputs, AllocationInputs)
        \/ AssignBody(t)
        \/ Discard(t)

Spec == Init /\ [][Next]_vars

\* Two threads whose calls interleave.
ConcNext ==
    \E t \in Threads :
        \/ CallAllocate(t, ConcRegionInputs, ConcTotalInputs)
        \/ AllocateBody(t)
        \/ CallAssign(t, ConcHospitalInputs, ConcAllocationInputs)
        \/ AssignBody(t)
        \/ Discard(t)

ConcSpec == Init /\ [][ConcNext]_vars

(* ============================= claims ================================== *)
AllocateReturned(t) == pc[t] = "allocate_returned"
AllocateEnded(t) == pc[t] \in {"allocate_returned", "allocate_raised"}
AssignReturned(t) == pc[t] = "assign_returned"

AllPositive(s) == \A i \in 1..Len(s) : s[i] > 0
NonNegative(s) == \A i \in 1..Len(s) : s[i] >= 0
Distinct(s) == \A i, j \in 1..Len(s) : i # j => s[i] # s[j]
Elements(s) == {s[i] : i \in 1..Len(s)}
Occurrences(s, x) == Cardinality({i \in 1..Len(s) : s[i] = x})
MappedTo(m, region) == {h \in Identifiers : m[h] = region}
Keys(m) == {h \in Identifiers : m[h] # NoRegion}

\* floor and ceiling of the exact share weight * total / total_weight
ShareFloor(regions, i, total) == (regions[i] * total) \div SumSeq(regions)
ShareCeil(regions, i, total) == -((-(regions[i] * total)) \div SumSeq(regions))

\* C1: for positive weights (a region weight table, so of positive sum) and
\* total >= 0, allocate returns an allocation that has every region of the
\* weights and whose counts sum to exactly total.
C1_SumsToTotal ==
    \A t \in Threads :
        (/\ AllocateEnded(t)
         /\ AllPositive(args[t].regions)
         /\ SumSeq(args[t].regions) > 0
         /\ args[t].total_hospitals >= 0)
        => /\ AllocateReturned(t)
           /\ DOMAIN allocation[t] = DOMAIN args[t].regions
           /\ SumSeq(allocation[t]) = args[t].total_hospitals

\* A call with positive weights returned after the second loop handed out units.
C1_Witness ==
    \E t \in Threads :
        /\ AllocateReturned(t)
        /\ AllPositive(args[t].regions)
        /\ Len(args[t].regions) = MaxRegions
        /\ args[t].total_hospitals > 0
        /\ allocation[t] # FirstLoop(args[t].regions, args[t].total_hospitals, MaxRegions).allocation

\* C2: with at least one region, non-negative weights of positive sum and
\* total >= 0, every region's count lies between the floor and the ceiling of
\* its exact proportional share.
C2_WithinFloorCeil ==
    \A t \in Threads :
        (/\ AllocateEnded(t)
         /\ Len(args[t].regions) > 0
         /\ NonNegative(args[t].regions)
         /\ SumSeq(args[t].regions) > 0
         /\ args[t].total_hospitals >= 0)
        => /\ AllocateReturned(t)
           /\ \A i \in 1..Len(args[t].regions) :
                 /\ i \in DOMAIN allocation[t]
                 /\ allocation[t][i] >= ShareFloor(args[t].regions, i, args[t].total_hospitals)
                 /\ allocation[t][i] <= ShareCeil(args[t].regions, i, args[t].total_hospitals)

\* A returned call with a zero weight in which one region got the ceiling of
\* a fractional share and another one its floor.
C2_Witness ==
    \E t \in Threads :
        /\ AllocateReturned(t)
        /\ NonNegative(args[t].regions)
        /\ args[t].total_hospitals > 0
        /\ \E i \in 1..Len(args[t].regions) : args[t].regions[i] = 0
        /\ \E i, j \in 1..Len(args[t].regions) :
              /\ ShareFloor(args[t].regions, i, args[t].total_hospitals)
                    < ShareCeil(args[t].regions, i, args[t].total_hospitals)
              /\ allocation[t][i] = ShareCeil(args[t].regions, i, args[t].total_hospitals)
              /\ ShareFloor(args[t].regions, j, args[t].total_hospitals)
                    < ShareCeil(args[t].regions, j, args[t].total_hospitals)
              /\ allocation[t][j] = ShareFloor(args[t].regions, j, args[t].total_hospitals)

\* C3: for distinct identifiers and an allocation (non-negative counts) whose
\* counts sum to the number of identifiers, the returned mapping has exactly
\* the identifiers as keys and maps allocation[region] of them to each region.
C3_ExactPartition ==
    \A t \in Threads :
        (/\ AssignReturned(t)
         /\ Distinct(args[t].hospitals)
         /\ NonNegative(args[t].allocation)
         /\ Len(args[t].hospitals) = SumSeq(args[t].allocation))
        => /\ Keys(mapping[t]) = Elements(args[t].hospitals)
           /\ \A h \in Keys(mapping[t]) : mapping[t][h] \in 1..Len(args[t].allocation)
           /\ \A region \in 1..Len(args[t].allocation) :
                 Cardinality(MappedTo(mapping[t], region)) = args[t].allocation[region]

\* All identifiers were assigned, to two regions that both got some.
C3_Witness ==
    \E t \in Threads :
        /\ AssignReturned(t)
        /\ Distinct(args[t].hospitals)
        /\ Len(args[t].hospitals) = MaxHospitals
        /\ Len(args[t].allocation) = 2
        /\ \A region \in 1..2 : args[t].allocation[region] > 0
        /\ Len(args[t].hospitals) = SumSeq(args[t].allocation)
        /\ hospitals[t] # args[t].hospitals

\* C4: assign returns no mapping when the number of identifiers differs from
\* the sum of the allocation: it ends with a size-mismatch error instead.
C4_MismatchRaises ==
    \A t \in Threads :
        (/\ pc[t] \in {"assign_returned", "assign_raised"}
         /\ Len(args[t].hospitals) # SumSeq(args[t].allocation))
        => /\ pc[t] = "assign_raised"
           /\ raised[t] # "none"

\* C5: allocate returns no allocation when the weights sum to <= 0 or
\* total < 0: it ends with an invalid-input error instead.
C5_InvalidInputRaises ==
    \A t \in Threads :
        (/\ AllocateEnded(t)
         /\ (SumSeq(args[t].regions) <= 0 \/ args[t].total_hospitals < 0))
        => /\ pc[t] = "allocate_raised"
           /\ raised[t] # "none"

\* C6: a seeded call of assign returns the mapping that its identifiers,
\* allocation and seed determine (the one the call yields on a generator just
\* seeded), whatever calls came before it; so two calls with equal arguments
\* and the same seed return identical mappings.
C6_SeededAssignReproducible ==
    \A t \in MainThread :
        (AssignReturned(t) /\ args[t].seed # NoSeed)
        => mapping[t] =
              assign_hospitals_to_regions(SeedState(args[t].seed), args[t].hospitals,
                                          args[t].allocation).mapping

\* A seeded call returned: it shuffled its identifiers and assigned them all.
C6_Witness ==
    \E t \in MainThread :
        /\ AssignReturned(t)
        /\ args[t].seed = MaxSeed
        /\ Distinct(args[t].hospitals)
        /\ Len(args[t].hospitals) = MaxHospitals
        /\ SumSeq(args[t].allocation) = MaxHospitals
        /\ hospitals[t] # args[t].hospitals
        /\ Keys(mapping[t]) = Elements(args[t].hospitals)

\* The largest-remainder allocation in exact arithmetic: the floor of the
\* exact share, plus one for the first `remaining` regions by remainder
\* descending, equal remainders in the order of the weights mapping.
ExactRemainder(regions, i, total) == (regions[i] * total) % SumSeq(regions)
ExactRank(regions, i, total) ==
    Cardinality({j \in 1..Len(regions) :
        \/ ExactRemainder(regions, j, total) > ExactRemainder(regions, i, total)
        \/ (ExactRemainder(regions, j, total) = ExactRemainder(regions, i, total) /\ j < i)})
ExactRemaining(regions, total) ==
    total - SumSeq([i \in 1..Len(regions) |-> ShareFloor(regions, i, total)])
LargestRemainder(regions, total) ==
    [i \in 1..Len(regions) |->
        ShareFloor(regions, i, total)
          + (IF ExactRank(regions, i, total) < ExactRemaining(regions, total) THEN 1 ELSE 0)]

\* C7: the extra units go to exactly the first `remaining` regions ordered by
\* fractional remainder descending, equal remainders in the iteration order
\* of the weights mapping, whatever the seed.
C7_TieBreakByOrder ==
    \A t \in Threads :
        (/\ AllocateReturned(t)
         /\ NonNegative(args[t].regions)
         /\ SumSeq(args[t].regions) > 0
         /\ args[t].total_hospitals >= 0)
        => allocation[t] = LargestRemainder(args[t].regions, args[t].total_hospitals)

\* C8: whatever the interleaving of the threads' steps, every call returns
\* what it returns when run alone with the same arguments.
C8_IndependentOfOtherCalls ==
    \A t \in Threads :
        /\ (AssignReturned(t) /\ args[t].seed # NoSeed)
              => mapping[t] =
                    assign_hospitals_to_regions(SeedGenerator(0, args[t].seed),
                                                args[t].hospitals,
                                                args[t].allocation).mapping
        /\ AllocateReturned(t)
              => allocation[t] =
                    allocate_hospitals_proportional(args[t].regions,
                                                    args[t].total_hospitals).allocation

C10_NeverOverAssigns ==
    \A t \in Threads :
        (/\ AssignReturned(t)
         /\ Distinct(args[t].hospitals)
         /\ NonNegative(args[t].allocation))
        => /\ Keys(mapping[t]) \subseteq Elements(args[t].hospitals)
           /\ \A h \in Keys(mapping[t]) : mapping[t][h] \in 1..Len(args[t].allocation)
           /\ \A region \in 1..Len(args[t].allocation) :
                 Cardinality(MappedTo(mapping[t], region)) <= args[t].allocation[region]
           /\ Cardinality(Keys(mapping[t]))
                 = Min(Len(args[t].hospitals), SumSeq(args[t].allocation))

\* More identifiers than units: some identifier stayed without a region
\* while every region was filled.
C10_Witness ==
    \E t \in Threads :
        /\ AssignReturned(t)
        /\ Distinct(args[t].hospitals)
        /\ NonNegative(args[t].allocation)
        /\ SumSeq(args[t].allocation) > 0
        /\ Len(args[t].hospitals) > SumSeq(args[t].allocation)
        /\ Cardinality(Keys(mapping[t])) = SumSeq(args[t].allocation)

====
